---- MODULE Spec2Model ----
(***************************************************************************)
(* The cache-aside CRUD service of kubernetes-hands-on/demo-app/backend.   *)
(* The relational store (users, posts) and the Redis cache are the shared  *)
(* state; every request handler is a process that touches them one         *)
(* statement at a time (a SELECT, a COMMIT, a GET, a SETEX, a DEL), so     *)
(* that requests served by different replicas can interleave.              *)
(***************************************************************************)
EXTENDS Integers, Sequences, FiniteSets, TLC

\* ------------------------------------------------------------------ bounds
MaxUsers == 2
MaxPosts == 2
NumProcs == 2
MaxClock == 15

\* ------------------------------------------------------- program constants
UserTTL == 15
PostsTTL == 10
StatsTTL == 5

\* ------------------------------------------------------------ input values
UserIds == 1..MaxUsers
PostIds == 1..MaxPosts
Procs == 1..NumProcs
Names == {"Ana", "Bob"}
Emails == {"ana@x.com", "bob@x.com"}
Passwords == {"pw"}
LoginPasswords == Passwords \cup {"bad"}
Titles == {"t1", "t2"}
Contents == {"c1", "c2"}
Skips == {0, 1}
Limits == {1, 2}
\* author_id of GET /posts: 0 stands for the parameter left out
AuthorIds == 0..MaxUsers

\* hist is a history variable: the statistics the store has held so far;
\* settled is another: the time at which every worker was first idle after the
\* last change of the store
VARIABLES users, posts, seq, cache, now, proc, hist, settled

vars == <<users, posts, seq, cache, now, proc, hist, settled>>

\* ------------------------------------------------------------------ values
\* Python's None
None == <<"None">>
\* a datetime value and its ISO-8601 text
datetime(t) == <<"datetime", t>>
isoformat(d) == <<"iso", d[2]>>
fromisoformat(s) == <<"datetime", s[2]>>
\* json.dumps / json.loads: the text of a value and the value of a text
json_dumps(v) == <<"json", v>>
json_loads(s) == s[2]
\* passlib's CryptContext: the hash of a password, and its verification
hash_password(password) == <<"bcrypt", password>>
\* (faulty variant) any password verifies
verify_password_any(plain_password, hashed_password) == TRUE

verify_password(plain_password, hashed_password) ==
    hashed_password = <<"bcrypt", plain_password>>
\* no ORM object loaded (Python's None for a row)
NoRow == [id |-> 0]

cache_key(prefix, identifier) == prefix \o ":" \o ToString(identifier)
StatsKey == "analytics:stats"

\* ------------------------------------------------------- relational store
\* INSERT INTO users: is_active and created_at take their column defaults
NewUser(id, name, email, password_hash) ==
    [id |-> id, name |-> name, email |-> email, password_hash |-> password_hash,
     is_active |-> TRUE, created_at |-> datetime(now), last_login |-> None]

\* INSERT INTO posts: created_at and updated_at take their column defaults
NewPost(id, title, content, author_id) ==
    [id |-> id, title |-> title, content |-> content, author_id |-> author_id,
     created_at |-> datetime(now), updated_at |-> datetime(now)]

\* db.query(User).filter(User.id == user_id).first()
UserById(user_id) ==
    IF user_id \in DOMAIN users THEN users[user_id] ELSE NoRow

\* (faulty variant) the lookup by email finds nothing
UserByEmail_finds_none(email) == NoRow

\* db.query(User).filter(User.email == email).first()
UserByEmail(email) ==
    IF \E i \in DOMAIN users : users[i].email = email
    THEN users[CHOOSE i \in DOMAIN users : users[i].email = email]
    ELSE NoRow

\* db.query(Post).filter(Post.id == post_id).first()
PostById(post_id) ==
    IF post_id \in DOMAIN posts THEN posts[post_id] ELSE NoRow

\* None as the value of a column of strings, and Python's truth value of an
\* Optional[str]
NoneString == "None"
TruthyStr(s) == s # NoneString /\ s # ""

\* the unique index on users.email: would row `id` holding `email` violate
\* it; NULLs do not collide
EmailTaken(id, email) ==
    /\ email # NoneString
    /\ \E i \in DOMAIN users : i # id /\ users[i].email = email

\* (faulty variant) every insert is given the same id
NextId_constant(table) == 1

\* the primary keys: each table's sequence hands out the next id, once
NextId(table) == seq[table] + 1

\* a table with one row added, replaced or removed
PutRow(table, row) ==
    [i \in DOMAIN table \cup {row.id} |-> IF i = row.id THEN row ELSE table[i]]
DelRow(table, id) == [i \in DOMAIN table \ {id} |-> table[i]]

\* ------------------------------------------------------------ Redis cache
\* redis_client.get(key): an entry that is present and has not expired
Cached(key) == key \in DOMAIN cache /\ cache[key].exp > now
\* (faulty variant) the entry is kept for twice its TTL
setex_twice_as_long(key, ttl, value) ==
    [k \in DOMAIN cache \cup {key} |->
        IF k = key THEN [val |-> value, exp |-> now + 2 * ttl] ELSE cache[k]]

\* redis_client.setex(key, ttl, value)
setex(key, ttl, value) ==
    [k \in DOMAIN cache \cup {key} |->
        IF k = key THEN [val |-> value, exp |-> now + ttl] ELSE cache[k]]
\* redis_client.delete(key)
delete(key) == [k \in DOMAIN cache \ {key} |-> cache[k]]

\* (faulty variant) the last login is left out of the snapshot
UserCacheData_no_last_login(user) ==
    [id |-> user.id, name |-> user.name, email |-> user.email,
     is_active |-> user.is_active,
     created_at |-> IF user.created_at # None THEN isoformat(user.created_at) ELSE None,
     last_login |-> None]

\* the dictionary cache_user serialises
UserCacheData(user) ==
    [id |-> user.id, name |-> user.name, email |-> user.email,
     is_active |-> user.is_active,
     created_at |-> IF user.created_at # None THEN isoformat(user.created_at) ELSE None,
     last_login |-> IF user.last_login # None THEN isoformat(user.last_login) ELSE None]

\* (faulty variant) the write handlers invalidate user:<id> instead of setting it
cache_user_invalidates(user) == delete(cache_key("user", user.id))

\* cache_user(user): the cache after the SETEX
cache_user(user) ==
    setex(cache_key("user", user.id), UserTTL, json_dumps(UserCacheData(user)))

\* get_cached_user(user_id): the decoded dictionary (only when Cached)
get_cached_user(user_id) == json_loads(cache[cache_key("user", user_id)].val)

\* (faulty variant) the entry is left in place
invalidate_user_cache_skipped(user_id) == cache

\* invalidate_user_cache(user_id): the cache after the DEL
invalidate_user_cache(user_id) == delete(cache_key("user", user_id))

\* the response model of a user: the ORM object's or the dictionary's fields
UserResponse(u) ==
    [id |-> u.id, name |-> u.name, email |-> u.email, is_active |-> u.is_active,
     created_at |-> u.created_at, last_login |-> u.last_login]

\* UserResponse's required fields: name: str, email: str
ValidUser(u) == u.name # NoneString /\ u.email # NoneString

\* (faulty variant) the last login is lost in the conversion
UserFromCache_drops_last_login(c) ==
    [c EXCEPT !.created_at = IF c.created_at # None THEN fromisoformat(c.created_at) ELSE None,
              !.last_login = None]

\* get_user's conversion of a cached dictionary back to datetimes
UserFromCache(c) ==
    [c EXCEPT !.created_at = IF c.created_at # None THEN fromisoformat(c.created_at) ELSE None,
              !.last_login = IF c.last_login # None THEN fromisoformat(c.last_login) ELSE None]


\* the dictionary cache_posts_by_author serialises for one post
PostCacheData(post) ==
    [id |-> post.id, title |-> post.title, content |-> post.content,
     author_id |-> post.author_id,
     created_at |-> IF post.created_at # None THEN isoformat(post.created_at) ELSE None,
     updated_at |-> IF post.updated_at # None THEN isoformat(post.updated_at) ELSE None]

\* cache_posts_by_author(author_id, posts): the cache after the SETEX
cache_posts_by_author(author_id, list) ==
    setex(cache_key("posts_by_author", author_id), PostsTTL,
          json_dumps([i \in 1..Len(list) |-> PostCacheData(list[i])]))

\* get_cached_posts_by_author(author_id): the decoded list (only when Cached)
get_cached_posts_by_author(author_id) ==
    json_loads(cache[cache_key("posts_by_author", author_id)].val)

\* (faulty variant) the post list is left in place
invalidate_posts_cache_skipped(author_id) == cache

\* invalidate_posts_cache(author_id): the cache after the DEL
invalidate_posts_cache(author_id) == delete(cache_key("posts_by_author", author_id))

\* the response model of a post
PostResponse(q) ==
    [id |-> q.id, title |-> q.title, content |-> q.content, author_id |-> q.author_id,
     created_at |-> q.created_at, updated_at |-> q.updated_at]

\* get_posts' conversion of a cached dictionary back to datetimes
PostFromCache(c) ==
    [c EXCEPT !.created_at = IF c.created_at # None THEN fromisoformat(c.created_at) ELSE None,
              !.updated_at = IF c.updated_at # None THEN fromisoformat(c.updated_at) ELSE None]

\* Python's truth value of a list, and of an Optional[int]
TruthyList(list) == Len(list) > 0
TruthyInt(n) == n # 0

\* the rows of a query in primary-key order, as a list
RECURSIVE RowsOf(_, _)
RowsOf(table, ids) ==
    IF ids = {} THEN <<>>
    ELSE LET m == CHOOSE i \in ids : \A j \in ids : i <= j
         IN  <<table[m]>> \o RowsOf(table, ids \ {m})

\* query.offset(skip).limit(limit).all()
OffsetLimit(list, skip, limit) ==
    SubSeq(list, skip + 1, IF skip + limit < Len(list) THEN skip + limit ELSE Len(list))

\* db.query(Post) [.filter(Post.author_id == author_id)] .offset().limit().all()
QueryPosts(author_id, skip, limit) ==
    LET ids == IF TruthyInt(author_id)
               THEN {i \in DOMAIN posts : posts[i].author_id = author_id}
               ELSE DOMAIN posts
    IN  OffsetLimit(RowsOf(posts, ids), skip, limit)

\* ---------------------------------------------------------------- requests
\* a handler's events, in order: what it did to the store and to the cache
EvGet(key) == <<"get", key>>
EvSet(key) == <<"setex", key>>
EvDel(key) == <<"delete", key>>
EvQuery == <<"query">>
EvCommit == <<"commit">>

\* a worker between requests
IdleProc ==
    [pc |-> "idle", op |-> "none", arg |-> <<>>, obj |-> NoRow, loaded |-> NoRow,
     list |-> <<>>, log |-> <<>>, resp |-> [status |-> 0]]

\* the response of a finished request is delivered before anything else
\* happens: the delivery touches neither store
Delivered == \A q \in Procs : proc[q].pc # "done"
Idle(p) == proc[p].pc = "idle" /\ Delivered
At(p, label) == proc[p].pc = label /\ Delivered

\* a request arrives at an idle worker
Begin(op, arg) == [IdleProc EXCEPT !.pc = "done", !.op = op, !.arg = arg]

Response(status, body) == [status |-> status, body |-> body]

\* the handler of p ends with this response
Finish(p, event, status, body) ==
    proc' = [proc EXCEPT ![p].pc = "done", ![p].log = Append(@, event),
                         ![p].resp = Response(status, body)]

\* the handler of p ends by returning a user through response_model=UserResponse
FinishUser(p, event, status, user) ==
    IF ValidUser(user)
    THEN Finish(p, event, status, UserResponse(user))
    ELSE Finish(p, event, 500, "ResponseValidationError")

\* the handler of p goes on to its next statement
Goto(p, event, label) ==
    proc' = [proc EXCEPT ![p].pc = label, ![p].log = Append(@, event)]

\* ... holding the ORM object it has just read or written
GotoWith(p, event, label, obj) ==
    proc' = [proc EXCEPT ![p].pc = label, ![p].log = Append(@, event), ![p].obj = obj]

\* the three counts of get_analytics_stats, of a store holding these tables
StoreStats(user_table, post_table) ==
    [total_users |-> Cardinality(DOMAIN user_table),
     active_users |-> Cardinality({i \in DOMAIN user_table : user_table[i].is_active}),
     total_posts |-> Cardinality(DOMAIN post_table)]

\* the history after a commit; it is kept only in runs that start with one
Record(user_table, post_table) ==
    IF hist = {} THEN hist ELSE hist \cup {StoreStats(user_table, post_table)}

\* both tables and the cache empty, every worker idle
Empty ==
    /\ users = <<>>
    /\ posts = <<>>
    /\ seq = [users |-> 0, posts |-> 0]
    /\ cache = <<>>
    /\ now = 0
    /\ proc = [p \in Procs |-> IdleProc]

\* settled while a change of the store has not been followed by a moment at
\* which every worker is idle
Unsettled == 0 - 1

\* settled after a commit that left the store with these tables
AfterCommit(user_table, post_table) ==
    IF user_table = users /\ post_table = posts THEN settled ELSE Unsettled

\* settled after worker p has delivered its response
AfterReturn(p) ==
    IF hist # {} /\ settled = Unsettled /\ \A q \in Procs \ {p} : proc[q].pc = "idle"
    THEN now ELSE settled

Init == Empty /\ hist = {} /\ settled = Unsettled
\* ... with the history of the store's statistics and of its settling kept
InitRecording == Empty /\ hist = {StoreStats(users, posts)} /\ settled = now

\* time passes; Redis drops the entries whose TTL has run out
Tick(minutes) ==
    /\ Delivered
    /\ now + minutes <= MaxClock
    /\ now' = now + minutes
    /\ cache' = [k \in {j \in DOMAIN cache : cache[j].exp > now + minutes} |-> cache[k]]
    /\ UNCHANGED <<users, posts, seq, proc, hist, settled>>

\* the response leaves; the worker is free for the next request
Return(p) ==
    /\ proc[p].pc = "done"
    /\ proc' = [proc EXCEPT ![p] = IdleProc]
    /\ settled' = AfterReturn(p)
    /\ UNCHANGED <<users, posts, seq, cache, now, hist>>

\* (faulty variant) the object is cached as the handler last held it
Refresh_keeps_object(p, table, error, label) == Goto(p, EvQuery, label)

\* db.refresh(obj), or the reload of an object expired by the commit: the row
\* is read again by its primary key
Refresh(p, table, error, label) ==
    IF proc[p].obj.id \notin DOMAIN table
    THEN Finish(p, EvQuery, 500, error)
    ELSE GotoWith(p, EvQuery, label, table[proc[p].obj.id])

\* ------------------------------------------------------ GET /users/{id}
get_user(p, in) ==
    /\ Idle(p)
    /\ \E user_id \in in.user_ids :
        LET key == cache_key("user", user_id)
            r == [Begin("get_user", [user_id |-> user_id]) EXCEPT !.log = <<EvGet(key)>>]
        IN  IF Cached(key)
            THEN proc' = [proc EXCEPT ![p] = [r EXCEPT !.resp =
                    IF ValidUser(get_cached_user(user_id))
                    THEN Response(200, UserResponse(UserFromCache(get_cached_user(user_id))))
                    ELSE Response(500, "ValidationError")]]
            ELSE proc' = [proc EXCEPT ![p] = [r EXCEPT !.pc = "get_user_query"]]
    /\ UNCHANGED <<users, posts, seq, cache, now, hist, settled>>

\* (faulty variant) the miss of an unknown id is cached as well
get_user_query_caches_miss(p) ==
    /\ At(p, "get_user_query")
    /\ LET user == UserById(proc[p].arg.user_id)
       IN  IF user = NoRow
           THEN /\ Finish(p, EvQuery, 404, "User not found")
                /\ cache' = setex(cache_key("user", proc[p].arg.user_id), UserTTL,
                                  json_dumps(None))
           ELSE /\ GotoWith(p, EvQuery, "get_user_cache", user)
                /\ cache' = cache
    /\ UNCHANGED <<users, posts, seq, now, hist, settled>>

get_user_query(p) ==
    /\ At(p, "get_user_query")
    /\ LET user == UserById(proc[p].arg.user_id)
       IN  IF user = NoRow
           THEN Finish(p, EvQuery, 404, "User not found")
           ELSE GotoWith(p, EvQuery, "get_user_cache", user)
    /\ UNCHANGED <<users, posts, seq, cache, now, hist, settled>>

get_user_cache(p) ==
    /\ At(p, "get_user_cache")
    /\ cache' = cache_user(proc[p].obj)
    /\ FinishUser(p, EvSet(cache_key("user", proc[p].obj.id)), 200, proc[p].obj)
    /\ UNCHANGED <<users, posts, seq, now, hist, settled>>

\* --------------------------------------------------------- POST /users
\* the bound on the users table: a create is taken up only while the scenario
\* has an id left for it
UserInserts == Cardinality({q \in Procs : proc[q].pc = "create_user_commit"})

create_user(p, in) ==
    /\ Idle(p)
    /\ seq.users + UserInserts < in.max_users
    /\ \E name \in in.names, email \in in.emails, password \in in.passwords :
        LET r == [Begin("create_user",
                        [name |-> name, email |-> email, password |-> password])
                  EXCEPT !.log = <<EvQuery>>]
            db_user == UserByEmail(email)
        IN  IF db_user # NoRow
            THEN proc' = [proc EXCEPT ![p] = [r EXCEPT !.resp =
                    Response(400, "Email already registered")]]
            ELSE proc' = [proc EXCEPT ![p] = [r EXCEPT !.pc = "create_user_commit"]]
    /\ UNCHANGED <<users, posts, seq, cache, now, hist, settled>>

\* db.add(db_user); db.commit(): the INSERT, which the unique index may refuse
\* (the id it drew from the sequence is then lost)
create_user_commit(p) ==
    /\ At(p, "create_user_commit")
    /\ seq' = [seq EXCEPT !.users = @ + 1]
    /\ LET a == proc[p].arg
           db_user == NewUser(NextId("users"), a.name, a.email, hash_password(a.password))
       IN  IF EmailTaken(0, a.email)
           THEN /\ Finish(p, EvCommit, 500, "IntegrityError")
                /\ UNCHANGED users
           ELSE /\ users' = PutRow(users, db_user)
                /\ GotoWith(p, EvCommit, "create_user_refresh", db_user)
    /\ UNCHANGED <<posts, cache, now>>
    /\ hist' = Record(users', posts')
    /\ settled' = AfterCommit(users', posts')

create_user_refresh(p) ==
    /\ At(p, "create_user_refresh")
    /\ Refresh(p, users, "InvalidRequestError", "create_user_cache")
    /\ UNCHANGED <<users, posts, seq, cache, now, hist, settled>>

create_user_cache(p) ==
    /\ At(p, "create_user_cache")
    /\ cache' = cache_user(proc[p].obj)
    /\ FinishUser(p, EvSet(cache_key("user", proc[p].obj.id)), 201, proc[p].obj)
    /\ UNCHANGED <<users, posts, seq, now, hist, settled>>

\* ---------------------------------------------------- PUT /users/{id}
\* UserUpdate bodies: every field is optional (exclude_unset keeps the set ones)
NamePart == {<<>>} \cup {[name |-> n] : n \in Names}
EmailPart == {<<>>} \cup {[email |-> e] : e \in Emails}
ActivePart == {<<>>} \cup {[is_active |-> b] : b \in BOOLEAN}
UserPatches == {a @@ b @@ c : a \in NamePart, b \in EmailPart, c \in ActivePart}

\* for field, value in update_data.items(): setattr(obj, field, value)
SetAttrs(obj, update_data) ==
    [f \in DOMAIN obj |-> IF f \in DOMAIN update_data THEN update_data[f] ELSE obj[f]]

\* the columns the flush writes: the attributes whose value has changed
Dirty(obj, update_data) == {f \in DOMAIN update_data : update_data[f] # obj[f]}

\* (faulty variant) the UPDATE writes no column
Flushed_writes_nothing(row, obj, update_data) == row

\* UPDATE ... SET <dirty columns> WHERE id = obj.id, on the row as it is now
Flushed(row, obj, update_data) ==
    [f \in DOMAIN row |-> IF f \in Dirty(obj, update_data) THEN update_data[f] ELSE row[f]]

update_user(p, in) ==
    /\ Idle(p)
    /\ \E user_id \in in.user_ids, user_update \in in.user_patches :
        LET r == [Begin("update_user", [user_id |-> user_id, update |-> user_update])
                  EXCEPT !.log = <<EvQuery>>]
            user == UserById(user_id)
        IN  IF user = NoRow
            THEN proc' = [proc EXCEPT ![p] = [r EXCEPT !.resp =
                    Response(404, "User not found")]]
            ELSE IF /\ "email" \in DOMAIN user_update
                    /\ TruthyStr(user_update.email)
                    /\ user_update.email # user.email
            THEN proc' = [proc EXCEPT ![p] = [r EXCEPT
                    !.pc = "update_user_check", !.obj = user, !.loaded = user]]
            ELSE proc' = [proc EXCEPT ![p] = [r EXCEPT
                    !.pc = "update_user_commit", !.obj = user, !.loaded = user]]
    /\ UNCHANGED <<users, posts, seq, cache, now, hist, settled>>

update_user_check(p) ==
    /\ At(p, "update_user_check")
    /\ LET existing_user == UserByEmail(proc[p].arg.update.email)
       IN  IF existing_user # NoRow
           THEN Finish(p, EvQuery, 400, "Email already registered")
           ELSE Goto(p, EvQuery, "update_user_commit")
    /\ UNCHANGED <<users, posts, seq, cache, now, hist, settled>>

update_user_commit(p) ==
    /\ At(p, "update_user_commit")
    /\ LET user == proc[p].obj
           update_data == proc[p].arg.update
       IN  IF Dirty(user, update_data) = {}
           THEN /\ Goto(p, EvCommit, "update_user_refresh")
                /\ UNCHANGED users
           ELSE IF user.id \notin DOMAIN users
           THEN /\ Finish(p, EvCommit, 500, "StaleDataError")
                /\ UNCHANGED users
           ELSE IF "email" \in Dirty(user, update_data)
                   /\ EmailTaken(user.id, update_data.email)
           THEN /\ Finish(p, EvCommit, 500, "IntegrityError")
                /\ UNCHANGED users
           ELSE /\ users' = PutRow(users, Flushed(users[user.id], user, update_data))
                /\ GotoWith(p, EvCommit, "update_user_refresh", SetAttrs(user, update_data))
    /\ UNCHANGED <<posts, seq, cache, now>>
    /\ hist' = Record(users', posts')
    /\ settled' = AfterCommit(users', posts')

update_user_refresh(p) ==
    /\ At(p, "update_user_refresh")
    /\ Refresh(p, users, "InvalidRequestError", "update_user_cache")
    /\ UNCHANGED <<users, posts, seq, cache, now, hist, settled>>

update_user_cache(p) ==
    /\ At(p, "update_user_cache")
    /\ cache' = cache_user(proc[p].obj)
    /\ FinishUser(p, EvSet(cache_key("user", proc[p].obj.id)), 200, proc[p].obj)
    /\ UNCHANGED <<users, posts, seq, now, hist, settled>>

\* ------------------------------------------------- DELETE /users/{id}
delete_user(p, in) ==
    /\ Idle(p)
    /\ \E user_id \in in.user_ids :
        LET r == [Begin("delete_user", [user_id |-> user_id]) EXCEPT !.log = <<EvQuery>>]
            user == UserById(user_id)
        IN  IF user = NoRow
            THEN proc' = [proc EXCEPT ![p] = [r EXCEPT !.resp =
                    Response(404, "User not found")]]
            ELSE proc' = [proc EXCEPT ![p] = [r EXCEPT
                    !.pc = "delete_user_commit", !.obj = user, !.loaded = user]]
    /\ UNCHANGED <<users, posts, seq, cache, now, hist, settled>>

\* db.delete(user); db.commit(): a DELETE that matches no row is no error
delete_user_commit(p) ==
    /\ At(p, "delete_user_commit")
    /\ users' = DelRow(users, proc[p].obj.id)
    /\ Goto(p, EvCommit, "delete_user_invalidate")
    /\ UNCHANGED <<posts, seq, cache, now>>
    /\ hist' = Record(users', posts')
    /\ settled' = AfterCommit(users', posts')

delete_user_invalidate(p) ==
    /\ At(p, "delete_user_invalidate")
    /\ cache' = invalidate_user_cache(proc[p].arg.user_id)
    /\ Goto(p, EvDel(cache_key("user", proc[p].arg.user_id)), "delete_user_invalidate_posts")
    /\ UNCHANGED <<users, posts, seq, now, hist, settled>>

delete_user_invalidate_posts(p) ==
    /\ At(p, "delete_user_invalidate_posts")
    /\ cache' = invalidate_posts_cache(proc[p].arg.user_id)
    /\ Finish(p, EvDel(cache_key("posts_by_author", proc[p].arg.user_id)), 200,
              "User deleted successfully")
    /\ UNCHANGED <<users, posts, seq, now, hist, settled>>

\* ----------------------------------------------------- POST /auth/login
login(p, in) ==
    /\ Idle(p)
    /\ \E email \in in.emails, password \in in.login_passwords :
        LET r == [Begin("login", [email |-> email, password |-> password])
                  EXCEPT !.log = <<EvQuery>>]
            user == UserByEmail(email)
        IN  IF user = NoRow \/ ~verify_password(password, user.password_hash)
            THEN proc' = [proc EXCEPT ![p] = [r EXCEPT !.resp =
                    Response(401, "Incorrect email or password")]]
            ELSE IF ~user.is_active
            THEN proc' = [proc EXCEPT ![p] = [r EXCEPT !.resp =
                    Response(401, "Account is inactive")]]
            ELSE proc' = [proc EXCEPT ![p] = [r EXCEPT
                    !.pc = "login_commit", !.obj = user, !.loaded = user]]
    /\ UNCHANGED <<users, posts, seq, cache, now, hist, settled>>

\* user.last_login = datetime.now(UTC); db.commit()
login_commit(p) ==
    /\ At(p, "login_commit")
    /\ LET user == proc[p].obj
       IN  IF user.id \notin DOMAIN users
           THEN /\ Finish(p, EvCommit, 500, "StaleDataError")
                /\ UNCHANGED users
           ELSE /\ users' = PutRow(users, [users[user.id] EXCEPT !.last_login = datetime(now)])
                /\ GotoWith(p, EvCommit, "login_reload",
                            [user EXCEPT !.last_login = datetime(now)])
    /\ UNCHANGED <<posts, seq, cache, now>>
    /\ hist' = Record(users', posts')
    /\ settled' = AfterCommit(users', posts')

\* cache_user(user) reads user.id: the commit expired the object, so it is
\* loaded again from the store
login_reload(p) ==
    /\ At(p, "login_reload")
    /\ Refresh(p, users, "ObjectDeletedError", "login_cache")
    /\ UNCHANGED <<users, posts, seq, cache, now, hist, settled>>

login_cache(p) ==
    /\ At(p, "login_cache")
    /\ cache' = cache_user(proc[p].obj)
    /\ Finish(p, EvSet(cache_key("user", proc[p].obj.id)), 200,
              [message |-> "Login successful", user_id |-> proc[p].obj.id])
    /\ UNCHANGED <<users, posts, seq, now, hist, settled>>

\* ------------------------------------------------------------ GET /posts
get_posts(p, in) ==
    /\ Idle(p)
    /\ \E skip \in in.skips, limit \in in.limits, author_id \in in.author_ids :
        LET key == cache_key("posts_by_author", author_id)
            r == Begin("get_posts", [skip |-> skip, limit |-> limit, author_id |-> author_id])
        IN  IF ~TruthyInt(author_id)
            THEN proc' = [proc EXCEPT ![p] = [r EXCEPT !.log = <<EvQuery>>,
                    !.list = QueryPosts(author_id, skip, limit),
                    !.resp = Response(200, [i \in 1..Len(QueryPosts(author_id, skip, limit)) |->
                                PostResponse(QueryPosts(author_id, skip, limit)[i])])]]
            ELSE IF Cached(key) /\ TruthyList(get_cached_posts_by_author(author_id))
            THEN proc' = [proc EXCEPT ![p] = [r EXCEPT !.log = <<EvGet(key)>>,
                    !.resp = Response(200, [i \in 1..Len(get_cached_posts_by_author(author_id)) |->
                                PostResponse(PostFromCache(get_cached_posts_by_author(author_id)[i]))])]]
            ELSE proc' = [proc EXCEPT ![p] = [r EXCEPT !.log = <<EvGet(key)>>,
                    !.pc = "get_posts_query"]]
    /\ UNCHANGED <<users, posts, seq, cache, now, hist, settled>>

get_posts_query(p) ==
    /\ At(p, "get_posts_query")
    /\ LET a == proc[p].arg
       IN  proc' = [proc EXCEPT ![p].pc = "get_posts_cache",
                ![p].log = Append(@, EvQuery),
                ![p].list = QueryPosts(a.author_id, a.skip, a.limit)]
    /\ UNCHANGED <<users, posts, seq, cache, now, hist, settled>>

get_posts_cache(p) ==
    /\ At(p, "get_posts_cache")
    /\ cache' = cache_posts_by_author(proc[p].arg.author_id, proc[p].list)
    /\ Finish(p, EvSet(cache_key("posts_by_author", proc[p].arg.author_id)), 200,
              [i \in 1..Len(proc[p].list) |-> PostResponse(proc[p].list[i])])
    /\ UNCHANGED <<users, posts, seq, now, hist, settled>>

\* ------------------------------------------------------ GET /posts/{id}
get_post(p, in) ==
    /\ Idle(p)
    /\ \E post_id \in in.post_ids :
        LET r == [Begin("get_post", [post_id |-> post_id]) EXCEPT !.log = <<EvQuery>>]
            post == PostById(post_id)
        IN  IF post = NoRow
            THEN proc' = [proc EXCEPT ![p] = [r EXCEPT !.resp =
                    Response(404, "Post not found")]]
            ELSE proc' = [proc EXCEPT ![p] = [r EXCEPT !.obj = post,
                    !.resp = Response(200, PostResponse(post))]]
    /\ UNCHANGED <<users, posts, seq, cache, now, hist, settled>>

\* ----------------------------------------------------------- POST /posts
PostInserts == Cardinality({q \in Procs : proc[q].pc = "create_post_commit"})

create_post(p, in) ==
    /\ Idle(p)
    /\ seq.posts + PostInserts < in.max_posts
    /\ \E title \in in.titles, content \in in.contents, author_id \in in.user_ids :
        LET r == [Begin("create_post",
                        [title |-> title, content |-> content, author_id |-> author_id])
                  EXCEPT !.log = <<EvQuery>>]
            user == UserById(author_id)
        IN  IF user = NoRow
            THEN proc' = [proc EXCEPT ![p] = [r EXCEPT !.resp =
                    Response(404, "Author not found")]]
            ELSE proc' = [proc EXCEPT ![p] = [r EXCEPT !.pc = "create_post_commit"]]
    /\ UNCHANGED <<users, posts, seq, cache, now, hist, settled>>

create_post_commit(p) ==
    /\ At(p, "create_post_commit")
    /\ seq' = [seq EXCEPT !.posts = @ + 1]
    /\ LET a == proc[p].arg
           db_post == NewPost(NextId("posts"), a.title, a.content, a.author_id)
       IN  /\ posts' = PutRow(posts, db_post)
           /\ GotoWith(p, EvCommit, "create_post_refresh", db_post)
    /\ UNCHANGED <<users, cache, now>>
    /\ hist' = Record(users', posts')
    /\ settled' = AfterCommit(users', posts')

create_post_refresh(p) ==
    /\ At(p, "create_post_refresh")
    /\ Refresh(p, posts, "InvalidRequestError", "create_post_invalidate")
    /\ UNCHANGED <<users, posts, seq, cache, now, hist, settled>>

create_post_invalidate(p) ==
    /\ At(p, "create_post_invalidate")
    /\ cache' = invalidate_posts_cache(proc[p].arg.author_id)
    /\ Finish(p, EvDel(cache_key("posts_by_author", proc[p].arg.author_id)), 201,
              PostResponse(proc[p].obj))
    /\ UNCHANGED <<users, posts, seq, now, hist, settled>>

\* ------------------------------------------------------ PUT /posts/{id}
\* PostUpdate bodies: every field is optional
TitlePart == {<<>>} \cup {[title |-> t] : t \in Titles}
ContentPart == {<<>>} \cup {[content |-> c] : c \in Contents}
PostPatches == {a @@ b : a \in TitlePart, b \in ContentPart}

update_post(p, in) ==
    /\ Idle(p)
    /\ \E post_id \in in.post_ids, post_update \in in.post_patches :
        LET r == [Begin("update_post", [post_id |-> post_id, update |-> post_update])
                  EXCEPT !.log = <<EvQuery>>]
            post == PostById(post_id)
        IN  IF post = NoRow
            THEN proc' = [proc EXCEPT ![p] = [r EXCEPT !.resp =
                    Response(404, "Post not found")]]
            ELSE proc' = [proc EXCEPT ![p] = [r EXCEPT
                    !.pc = "update_post_commit", !.obj = post, !.loaded = post]]
    /\ UNCHANGED <<users, posts, seq, cache, now, hist, settled>>

\* setattr for each field; post.updated_at = datetime.now(UTC); db.commit()
update_post_commit(p) ==
    /\ At(p, "update_post_commit")
    /\ LET post == proc[p].obj
           update_data == proc[p].arg.update
       IN  IF post.id \notin DOMAIN posts
           THEN /\ Finish(p, EvCommit, 500, "StaleDataError")
                /\ UNCHANGED posts
           ELSE /\ posts' = PutRow(posts, [Flushed(posts[post.id], post, update_data)
                                           EXCEPT !.updated_at = datetime(now)])
                /\ GotoWith(p, EvCommit, "update_post_refresh",
                            [SetAttrs(post, update_data) EXCEPT !.updated_at = datetime(now)])
    /\ UNCHANGED <<users, seq, cache, now>>
    /\ hist' = Record(users', posts')
    /\ settled' = AfterCommit(users', posts')

update_post_refresh(p) ==
    /\ At(p, "update_post_refresh")
    /\ Refresh(p, posts, "InvalidRequestError", "update_post_invalidate")
    /\ UNCHANGED <<users, posts, seq, cache, now, hist, settled>>

update_post_invalidate(p) ==
    /\ At(p, "update_post_invalidate")
    /\ cache' = invalidate_posts_cache(proc[p].obj.author_id)
    /\ Finish(p, EvDel(cache_key("posts_by_author", proc[p].obj.author_id)), 200,
              PostResponse(proc[p].obj))
    /\ UNCHANGED <<users, posts, seq, now, hist, settled>>

\* --------------------------------------------------- DELETE /posts/{id}
delete_post(p, in) ==
    /\ Idle(p)
    /\ \E post_id \in in.post_ids :
        LET r == [Begin("delete_post", [post_id |-> post_id]) EXCEPT !.log = <<EvQuery>>]
            post == PostById(post_id)
        IN  IF post = NoRow
            THEN proc' = [proc EXCEPT ![p] = [r EXCEPT !.resp =
                    Response(404, "Post not found")]]
            ELSE proc' = [proc EXCEPT ![p] = [r EXCEPT
                    !.pc = "delete_post_commit", !.obj = post, !.loaded = post]]
    /\ UNCHANGED <<users, posts, seq, cache, now, hist, settled>>

\* author_id = post.author_id; db.delete(post); db.commit()
delete_post_commit(p) ==
    /\ At(p, "delete_post_commit")
    /\ posts' = DelRow(posts, proc[p].obj.id)
    /\ Goto(p, EvCommit, "delete_post_invalidate")
    /\ UNCHANGED <<users, seq, cache, now>>
    /\ hist' = Record(users', posts')
    /\ settled' = AfterCommit(users', posts')

delete_post_invalidate(p) ==
    /\ At(p, "delete_post_invalidate")
    /\ cache' = invalidate_posts_cache(proc[p].obj.author_id)
    /\ Finish(p, EvDel(cache_key("posts_by_author", proc[p].obj.author_id)), 200,
              "Post deleted successfully")
    /\ UNCHANGED <<users, posts, seq, now, hist, settled>>

\* ------------------------------------------------ GET /analytics/stats
NoStats == [total_users |-> 0, active_users |-> 0, total_posts |-> 0]

get_analytics_stats(p) ==
    /\ Idle(p)
    /\ LET r == [Begin("get_analytics_stats", <<>>) EXCEPT !.log = <<EvGet(StatsKey)>>]
       IN  IF Cached(StatsKey)
           THEN proc' = [proc EXCEPT ![p] = [r EXCEPT !.resp =
                    Response(200, json_loads(cache[StatsKey].val))]]
           ELSE proc' = [proc EXCEPT ![p] = [r EXCEPT !.pc = "stats_total_users",
                    !.obj = NoStats]]
    /\ UNCHANGED <<users, posts, seq, cache, now, hist, settled>>

\* total_users = db.query(User).count()
stats_total_users(p) ==
    /\ At(p, "stats_total_users")
    /\ GotoWith(p, EvQuery, "stats_active_users",
                [proc[p].obj EXCEPT !.total_users = Cardinality(DOMAIN users)])
    /\ UNCHANGED <<users, posts, seq, cache, now, hist, settled>>

\* active_users = db.query(User).filter(User.is_active == True).count()
stats_active_users(p) ==
    /\ At(p, "stats_active_users")
    /\ GotoWith(p, EvQuery, "stats_total_posts",
                [proc[p].obj EXCEPT !.active_users =
                    Cardinality({i \in DOMAIN users : users[i].is_active})])
    /\ UNCHANGED <<users, posts, seq, cache, now, hist, settled>>

\* total_posts = db.query(Post).count()
stats_total_posts(p) ==
    /\ At(p, "stats_total_posts")
    /\ GotoWith(p, EvQuery, "stats_cache",
                [proc[p].obj EXCEPT !.total_posts = Cardinality(DOMAIN posts)])
    /\ UNCHANGED <<users, posts, seq, cache, now, hist, settled>>

\* the stats dictionary; redis_client.setex("analytics:stats", 5 minutes, ...)
StatsData(counts) ==
    [total_users |-> counts.total_users, active_users |-> counts.active_users,
     total_posts |-> counts.total_posts, generated_at |-> isoformat(datetime(now))]

stats_cache(p) ==
    /\ At(p, "stats_cache")
    /\ cache' = setex(StatsKey, StatsTTL, json_dumps(StatsData(proc[p].obj)))
    /\ Finish(p, EvSet(StatsKey), 200, StatsData(proc[p].obj))
    /\ UNCHANGED <<users, posts, seq, now, hist, settled>>

\* ------------------------------------------------------- specifications
\* every input the handlers are offered
AllInputs ==
    [user_ids |-> UserIds, names |-> Names, emails |-> Emails, passwords |-> Passwords,
     login_passwords |-> LoginPasswords, user_patches |-> UserPatches,
     author_ids |-> AuthorIds, skips |-> Skips, limits |-> Limits,
     post_ids |-> PostIds, titles |-> Titles, contents |-> Contents,
     post_patches |-> PostPatches, max_users |-> MaxUsers, max_posts |-> MaxPosts]

UserSteps(p, in) ==
    \/ get_user(p, in) \/ get_user_query(p) \/ get_user_cache(p)
    \/ create_user(p, in) \/ create_user_commit(p) \/ create_user_refresh(p)
    \/ create_user_cache(p)
    \/ update_user(p, in) \/ update_user_check(p) \/ update_user_commit(p)
    \/ update_user_refresh(p) \/ update_user_cache(p)
    \/ delete_user(p, in) \/ delete_user_commit(p) \/ delete_user_invalidate(p)
    \/ delete_user_invalidate_posts(p)
    \/ login(p, in) \/ login_commit(p) \/ login_reload(p) \/ login_cache(p)

PostSteps(p, in) ==
    \/ get_posts(p, in) \/ get_posts_query(p) \/ get_posts_cache(p)
    \/ get_post(p, in)
    \/ create_post(p, in) \/ create_post_commit(p) \/ create_post_refresh(p)
    \/ create_post_invalidate(p)
    \/ update_post(p, in) \/ update_post_commit(p) \/ update_post_refresh(p)
    \/ update_post_invalidate(p)
    \/ delete_post(p, in) \/ delete_post_commit(p) \/ delete_post_invalidate(p)

StatsSteps(p) ==
    \/ get_analytics_stats(p) \/ stats_total_users(p) \/ stats_active_users(p)
    \/ stats_total_posts(p) \/ stats_cache(p)

\* no request is being served
Quiet == \A q \in Procs : proc[q].pc = "idle"

\* requests served one at a time by one worker: the user endpoints, with the
\* clock moving between requests by the longest TTL
NextUsers == (Quiet /\ Tick(UserTTL)) \/ Return(1) \/ UserSteps(1, AllInputs)
SpecUsers == Init /\ [][NextUsers]_vars

\* the inputs of the post scenarios: two authors of one name, posts created
\* with one title and content, and four of the nine update bodies
PostInputs ==
    [AllInputs EXCEPT !.names = {"Ana"}, !.titles = {"t1"}, !.contents = {"c1"},
        !.post_patches = {<<>>, [title |-> "t2"], [content |-> "c2"],
                          [title |-> "t1", content |-> "c1"]}]

\* requests served one at a time: the post endpoints, with users created and
\* deleted; no time passes
NextPosts ==
    \/ Return(1)
    \/ create_user(1, PostInputs) \/ create_user_commit(1) \/ create_user_refresh(1)
    \/ create_user_cache(1)
    \/ delete_user(1, PostInputs) \/ delete_user_commit(1) \/ delete_user_invalidate(1)
    \/ delete_user_invalidate_posts(1)
    \/ PostSteps(1, PostInputs)
SpecPosts == Init /\ [][NextPosts]_vars

\* the inputs of the update scenario: one user and one post fewer than the
\* tables hold, created with one name, title and content, and every update
\* body
PatchInputs ==
    [AllInputs EXCEPT !.names = {"Ana"}, !.emails = {"ana@x.com"},
        !.titles = {"t1"}, !.contents = {"c1"},
        !.max_users = MaxUsers - 1, !.max_posts = MaxPosts - 1]

\* requests served one at a time: creates, updates and single reads of users
\* and posts, with the clock moving between requests
NextPatch ==
    \/ Quiet /\ Tick(UserTTL)
    \/ Return(1)
    \/ create_user(1, PatchInputs) \/ create_user_commit(1) \/ create_user_refresh(1)
    \/ create_user_cache(1)
    \/ update_user(1, PatchInputs) \/ update_user_check(1) \/ update_user_commit(1)
    \/ update_user_refresh(1) \/ update_user_cache(1)
    \/ get_user(1, PatchInputs) \/ get_user_query(1) \/ get_user_cache(1)
    \/ create_post(1, PatchInputs) \/ create_post_commit(1) \/ create_post_refresh(1)
    \/ create_post_invalidate(1)
    \/ update_post(1, PatchInputs) \/ update_post_commit(1) \/ update_post_refresh(1)
    \/ update_post_invalidate(1)
    \/ get_post(1, PatchInputs)
SpecPatch == Init /\ [][NextPatch]_vars

\* the inputs of the concurrent scenario: one account and one post fewer than
\* the tables hold, one page of posts, and one update body
RaceInputs ==
    [AllInputs EXCEPT !.names = {"Ana"}, !.emails = {"ana@x.com"},
        !.login_passwords = {"pw"}, !.user_ids = {1}, !.author_ids = {1},
        !.user_patches = {[email |-> "bob@x.com", is_active |-> FALSE]},
        !.titles = {"t1"}, !.contents = {"c1"}, !.skips = {0}, !.limits = {2},
        !.post_ids = {1}, !.post_patches = {[title |-> "t2"]},
        !.max_users = MaxUsers - 1, !.max_posts = MaxPosts - 1]

\* requests of every worker interleaved, statement by statement
Next ==
    \E p \in Procs :
        \/ Return(p)
        \/ UserSteps(p, RaceInputs)
        \/ get_posts(p, RaceInputs) \/ get_posts_query(p) \/ get_posts_cache(p)
        \/ create_post(p, RaceInputs) \/ create_post_commit(p) \/ create_post_refresh(p)
        \/ create_post_invalidate(p)
        \/ StatsSteps(p)
Spec == InitRecording /\ [][Next]_vars

\* the inputs of the statistics scenario: accounts of one name and email,
\* deactivated by the one update body, and one post of one title and content
StatsInputs ==
    [AllInputs EXCEPT !.names = {"Ana"}, !.emails = {"ana@x.com"},
        !.user_patches = {[is_active |-> FALSE]},
        !.titles = {"t1"}, !.contents = {"c1"}, !.post_ids = {1},
        !.max_posts = MaxPosts - 1]

\* requests served one at a time: the statistics, and the writes that change
\* what they count, with the clock moving between requests by the stats TTL
NextStats ==
    \/ Quiet /\ Tick(StatsTTL)
    \/ Return(1)
    \/ create_user(1, StatsInputs) \/ create_user_commit(1) \/ create_user_refresh(1)
    \/ create_user_cache(1)
    \/ update_user(1, StatsInputs) \/ update_user_commit(1) \/ update_user_refresh(1)
    \/ update_user_cache(1)
    \/ delete_user(1, StatsInputs) \/ delete_user_commit(1) \/ delete_user_invalidate(1)
    \/ delete_user_invalidate_posts(1)
    \/ create_post(1, StatsInputs) \/ create_post_commit(1) \/ create_post_refresh(1)
    \/ create_post_invalidate(1)
    \/ delete_post(1, StatsInputs) \/ delete_post_commit(1) \/ delete_post_invalidate(1)
    \/ StatsSteps(1)
SpecStats == Init /\ [][NextStats]_vars

\* the inputs of the expiry scenario: one account, deactivated by the one
\* update body, and one post, read as one page
TTLInputs ==
    [AllInputs EXCEPT !.names = {"Ana"}, !.emails = {"ana@x.com"}, !.user_ids = {1},
        !.user_patches = {[is_active |-> FALSE]}, !.author_ids = {1},
        !.titles = {"t1"}, !.contents = {"c1"}, !.skips = {0}, !.limits = {2},
        !.max_users = MaxUsers - 1, !.max_posts = MaxPosts - 1]

\* requests of every worker interleaved, statement by statement, with the
\* clock moving at any moment by the shortest TTL
NextTTL ==
    \/ Tick(StatsTTL)
    \/ \E p \in Procs :
        \/ Return(p)
        \/ create_user(p, TTLInputs) \/ create_user_commit(p) \/ create_user_refresh(p)
        \/ create_user_cache(p)
        \/ update_user(p, TTLInputs) \/ update_user_commit(p) \/ update_user_refresh(p)
        \/ update_user_cache(p)
        \/ get_user(p, TTLInputs) \/ get_user_query(p) \/ get_user_cache(p)
        \/ create_post(p, TTLInputs) \/ create_post_commit(p) \/ create_post_refresh(p)
        \/ create_post_invalidate(p)
        \/ get_posts(p, TTLInputs) \/ get_posts_query(p) \/ get_posts_cache(p)
        \/ StatsSteps(p)
SpecTTL == InitRecording /\ [][NextTTL]_vars

\* the inputs of the refusal scenario: two accounts of one name, two update
\* bodies (an email that may be another account's, a deactivation), good and
\* bad passwords, and one post with one update body
ErrorInputs ==
    [AllInputs EXCEPT !.names = {"Ana"},
        !.user_patches = {[email |-> "ana@x.com"], [is_active |-> FALSE]},
        !.author_ids = {1}, !.titles = {"t1"}, !.contents = {"c1"},
        !.post_ids = {1}, !.post_patches = {[title |-> "t2"]},
        !.max_posts = MaxPosts - 1]

\* requests served one at a time: every endpoint that can refuse a request,
\* with the clock moving between requests
NextErrors ==
    \/ Quiet /\ Tick(UserTTL)
    \/ Return(1)
    \/ UserSteps(1, ErrorInputs)
    \/ get_post(1, ErrorInputs)
    \/ create_post(1, ErrorInputs) \/ create_post_commit(1) \/ create_post_refresh(1)
    \/ create_post_invalidate(1)
    \/ update_post(1, ErrorInputs) \/ update_post_commit(1) \/ update_post_refresh(1)
    \/ update_post_invalidate(1)
    \/ delete_post(1, ErrorInputs) \/ delete_post_commit(1) \/ delete_post_invalidate(1)
SpecErrors == Init /\ [][NextErrors]_vars

\* the inputs of the writers' scenario: one account, renamed by the one update
\* body, and its right password
WriterInputs ==
    [AllInputs EXCEPT !.names = {"Ana"}, !.emails = {"ana@x.com"}, !.user_ids = {1},
        !.login_passwords = {"pw"}, !.user_patches = {[name |-> "Bob"]},
        !.max_users = MaxUsers - 1]

\* the write handlers of the user key, of every worker, interleaved statement
\* by statement; no read handler runs
NextWriters ==
    \E p \in Procs :
        \/ Return(p)
        \/ create_user(p, WriterInputs) \/ create_user_commit(p) \/ create_user_refresh(p)
        \/ create_user_cache(p)
        \/ update_user(p, WriterInputs) \/ update_user_commit(p) \/ update_user_refresh(p)
        \/ update_user_cache(p)
        \/ delete_user(p, WriterInputs) \/ delete_user_commit(p) \/ delete_user_invalidate(p)
        \/ delete_user_invalidate_posts(p)
        \/ login(p, WriterInputs) \/ login_commit(p) \/ login_reload(p) \/ login_cache(p)
SpecWriters == Init /\ [][NextWriters]_vars

\* create_user requests of every worker, interleaved statement by statement
NextCreates ==
    \E p \in Procs :
        \/ Return(p)
        \/ create_user(p, AllInputs) \/ create_user_commit(p) \/ create_user_refresh(p)
        \/ create_user_cache(p)
SpecCreates == Init /\ [][NextCreates]_vars

\* the inputs of the authors' scenario: two accounts of one name, and posts of
\* one title and content
AuthorInputs ==
    [AllInputs EXCEPT !.names = {"Ana"}, !.titles = {"t1"}, !.contents = {"c1"}]

\* create_post of every worker interleaved, statement by statement, with the
\* creation and the deletion of its authors
NextAuthors ==
    \E p \in Procs :
        \/ Return(p)
        \/ create_user(p, AuthorInputs) \/ create_user_commit(p) \/ create_user_refresh(p)
        \/ create_user_cache(p)
        \/ delete_user(p, AuthorInputs) \/ delete_user_commit(p) \/ delete_user_invalidate(p)
        \/ delete_user_invalidate_posts(p)
        \/ create_post(p, AuthorInputs) \/ create_post_commit(p) \/ create_post_refresh(p)
        \/ create_post_invalidate(p)
SpecAuthors == Init /\ [][NextAuthors]_vars

\* the inputs of the null scenario: accounts of one name, and update bodies
\* that set the name or the email to null, or the email to another address
NullInputs ==
    [AllInputs EXCEPT !.names = {"Ana"},
        !.user_patches = {[name |-> NoneString], [email |-> NoneString],
                          [email |-> "bob@x.com"]}]

\* requests served one at a time: accounts created, updated and read, with
\* the clock moving between requests
NextNulls ==
    \/ Quiet /\ Tick(UserTTL)
    \/ Return(1)
    \/ create_user(1, NullInputs) \/ create_user_commit(1) \/ create_user_refresh(1)
    \/ create_user_cache(1)
    \/ update_user(1, NullInputs) \/ update_user_check(1) \/ update_user_commit(1)
    \/ update_user_refresh(1) \/ update_user_cache(1)
    \/ get_user(1, NullInputs) \/ get_user_query(1) \/ get_user_cache(1)
SpecNulls == Init /\ [][NextNulls]_vars

\* ----------------------------------------------------------- properties
Done(p, op) == proc[p].pc = "done" /\ proc[p].op = op
Status(p) == proc[p].resp.status
UserKey(id) == cache_key("user", id)
PostsKey(id) == cache_key("posts_by_author", id)

\* user:<id> holds the stored row of id, set just now
CachedUser(id) == UserFromCache(json_loads(cache[UserKey(id)].val))
FreshUserEntry(id) ==
    /\ id \in DOMAIN users
    /\ UserKey(id) \in DOMAIN cache
    /\ CachedUser(id) = UserResponse(users[id])
    /\ cache[UserKey(id)].exp = now + 15

CacheEvents(log, key) ==
    {i \in 1..Len(log) : log[i] \in {EvSet(key), EvDel(key)}}

\* C1 as stated: a write handler of a user key never sets user:<id>; the only
\* thing it does to the entry after its commit is to delete it.
C1_WritesOnlyDelete ==
    \A p \in Procs :
        proc[p].op \in {"create_user", "update_user", "delete_user", "login"}
        => \A i \in 1..Len(proc[p].log) : proc[p].log[i][1] # "setex"

\* C1 as amended: a successful write handler touches user:<id> exactly once,
\* after its commit: create_user, update_user and login SETEX the row they
\* re-read from the store (write-through, TTL 15 minutes), and only
\* delete_user deletes the entry.
C1_WriteThroughAfterCommit ==
    \A p \in Procs :
        LET r == proc[p]
        IN  /\ Done(p, "create_user") /\ Status(p) = 201
               => /\ r.log = <<EvQuery, EvCommit, EvQuery, EvSet(UserKey(r.resp.body.id))>>
                  /\ FreshUserEntry(r.resp.body.id)
            /\ Done(p, "update_user") /\ Status(p) = 200
               => /\ r.log \in {<<EvQuery, EvCommit, EvQuery, EvSet(UserKey(r.arg.user_id))>>,
                                <<EvQuery, EvQuery, EvCommit, EvQuery, EvSet(UserKey(r.arg.user_id))>>}
                  /\ FreshUserEntry(r.arg.user_id)
            /\ Done(p, "login") /\ Status(p) = 200
               => /\ r.log = <<EvQuery, EvCommit, EvQuery, EvSet(UserKey(r.resp.body.user_id))>>
                  /\ FreshUserEntry(r.resp.body.user_id)
            /\ Done(p, "delete_user") /\ Status(p) = 200
               => /\ r.log = <<EvQuery, EvCommit, EvDel(UserKey(r.arg.user_id)),
                               EvDel(PostsKey(r.arg.user_id))>>
                  /\ UserKey(r.arg.user_id) \notin DOMAIN cache

\* C1 happens: an update_user that changed the row has just written it through
C1_Witness ==
    \E p \in Procs :
        /\ Done(p, "update_user") /\ Status(p) = 200
        /\ proc[p].loaded # users[proc[p].arg.user_id]
        /\ FreshUserEntry(proc[p].arg.user_id)

\* C3: the miss path of get_user. A get_user that found no user:<id> entry
\* read the store; if the row exists it has SETEX user:<id> to the snapshot of
\* that row with a TTL of 15 minutes and returns the row; if not, it answers
\* 404 and there is no entry for id.
C3_GetUserMiss ==
    \A p \in Procs :
        LET r == proc[p]
            key == UserKey(r.arg.user_id)
        IN  /\ r.pc \in {"get_user_query", "get_user_cache"} => ~Cached(key)
            /\ r.pc = "get_user_cache" => r.obj = users[r.arg.user_id]
            /\ Done(p, "get_user") /\ Len(r.log) > 1
               => IF r.arg.user_id \in DOMAIN users
                  THEN /\ r.log = <<EvGet(key), EvQuery, EvSet(key)>>
                       /\ Status(p) = 200
                       /\ r.resp.body = UserResponse(users[r.arg.user_id])
                       /\ FreshUserEntry(r.arg.user_id)
                  ELSE /\ r.log = <<EvGet(key), EvQuery>>
                       /\ Status(p) = 404
                       /\ key \notin DOMAIN cache

\* C3 happens: a get_user has missed, found the row (last login and all) and cached it
C3_Witness ==
    \E p \in Procs :
        /\ Done(p, "get_user") /\ Status(p) = 200
        /\ proc[p].log = <<EvGet(UserKey(proc[p].arg.user_id)), EvQuery,
                           EvSet(UserKey(proc[p].arg.user_id))>>
        /\ proc[p].resp.body.last_login # None
        /\ FreshUserEntry(proc[p].arg.user_id)

\* C5: served one at a time, a successful delete_user(id) leaves no row and
\* no user:<id> entry; a row that is gone has no entry whenever no request is
\* being served, and a get_user for it answers 404.
C5_DeletedStaysGone ==
    /\ \A p \in Procs :
        /\ Done(p, "delete_user") /\ Status(p) = 200
           => /\ proc[p].arg.user_id \notin DOMAIN users
              /\ UserKey(proc[p].arg.user_id) \notin DOMAIN cache
        /\ Done(p, "get_user") /\ proc[p].arg.user_id \notin DOMAIN users
           => Status(p) = 404
        /\ Done(p, "get_user") /\ proc[p].arg.user_id \in DOMAIN users
           => Status(p) = 200
    /\ Quiet => \A id \in UserIds \ DOMAIN users : UserKey(id) \notin DOMAIN cache

\* C5 happens: a get_user for a user that was created, cached and then deleted: 404
C5_Witness ==
    \E p \in Procs :
        /\ Done(p, "get_user") /\ Status(p) = 404
        /\ proc[p].arg.user_id <= seq.users
        /\ proc[p].arg.user_id \notin DOMAIN users

\* C6: a create_user whose email a stored user has answers 400 after its one
\* query, with no commit and no cache write; so does an update_user that moves
\* the email to another user's; served one at a time, no request ends in a
\* refused commit and no two stored users share an email.
C6_EmailUnique ==
    /\ \A i, j \in DOMAIN users : i # j => users[i].email # users[j].email
    /\ \A p \in Procs :
        LET r == proc[p]
        IN  /\ Done(p, "create_user")
               => /\ Status(p) \in {201, 400}
                  /\ Status(p) = 400
                     => /\ r.resp.body = "Email already registered"
                        /\ r.log = <<EvQuery>>
                        /\ \E i \in DOMAIN users :
                            users[i].email = r.arg.email /\ users[i].created_at[2] <= now
                  /\ Status(p) = 201
                     => /\ r.resp.body.id = seq.users
                        /\ users[r.resp.body.id].email = r.arg.email
            /\ Done(p, "update_user")
               => /\ Status(p) \in {200, 400, 404}
                  /\ Status(p) = 400
                     => /\ r.log = <<EvQuery, EvQuery>>
                        /\ users[r.arg.user_id] = r.loaded
                        /\ \E i \in DOMAIN users :
                            i # r.arg.user_id /\ users[i].email = r.arg.update.email
                  /\ Status(p) = 200 /\ "email" \in DOMAIN r.arg.update
                     => users[r.arg.user_id].email = r.arg.update.email

\* C6 happens: an update_user was refused the email of another user
C6_Witness ==
    \E p \in Procs :
        /\ Done(p, "update_user") /\ Status(p) = 400
        /\ Cardinality(DOMAIN users) = 2

\* C8: login succeeds only for a stored, active user whose password verifies;
\* an unknown email or a wrong password is refused first, whatever the active
\* flag, an inactive account with the right password is refused next; on
\* success the stored last_login is the time of the login and user:<id> holds
\* the stored row with it.
C8_Login ==
    \A p \in Procs :
        LET r == proc[p]
            user == UserByEmail(r.arg.email)
            known == user # NoRow /\ user.password_hash = <<"bcrypt", r.arg.password>>
        IN  Done(p, "login")
            => /\ Status(p) \in {200, 401}
               /\ ~known => Status(p) = 401 /\ r.resp.body = "Incorrect email or password"
                            /\ r.log = <<EvQuery>>
               /\ known /\ ~user.is_active
                    => Status(p) = 401 /\ r.resp.body = "Account is inactive"
                       /\ r.log = <<EvQuery>>
               /\ known /\ user.is_active
                    => /\ Status(p) = 200
                       /\ r.resp.body.user_id = user.id
                       /\ user.last_login = datetime(now)
                       /\ FreshUserEntry(user.id)
                       /\ CachedUser(user.id).last_login = datetime(now)

\* C8 happens: a login has succeeded at a later time than the account was created
C8_Witness ==
    \E p \in Procs :
        /\ Done(p, "login") /\ Status(p) = 200
        /\ users[proc[p].resp.body.user_id].last_login = datetime(now)
        /\ users[proc[p].resp.body.user_id].created_at # datetime(now)

\* C2: the hit path. A handler that found its key in the cache (user:<id>,
\* posts_by_author:<author_id>, analytics:stats) goes no further: it is never
\* about to query the store while the entry it asked for is present, and a
\* request that ended after its GET alone returns the decoded entry.
C2_HitSkipsStore ==
    \A p \in Procs :
        LET r == proc[p]
        IN  /\ r.pc = "get_user_query" => ~Cached(UserKey(r.arg.user_id))
            /\ r.pc = "get_posts_query" => ~Cached(PostsKey(r.arg.author_id))
            /\ r.pc = "stats_total_users" => ~Cached(StatsKey)
            /\ Done(p, "get_posts") /\ r.log = <<EvGet(PostsKey(r.arg.author_id))>>
               => /\ Status(p) = 200
                  /\ Len(r.resp.body) = Len(get_cached_posts_by_author(r.arg.author_id))

\* C9: a create that succeeds returns the submitted fields (a new user is
\* active) under an id no stored record of the kind has, and its commit adds
\* that one record to the table and changes no other.
C9_CreatedState ==
    \A p \in Procs :
        LET r == proc[p]
        IN  /\ Done(p, "create_user") /\ Status(p) = 201
               => /\ r.resp.body.name = r.arg.name
                  /\ r.resp.body.email = r.arg.email
                  /\ r.resp.body.is_active = TRUE
                  /\ r.resp.body.created_at = <<"datetime", now>>
                  /\ r.resp.body.id \in DOMAIN users
                  /\ UserResponse(users[r.resp.body.id]) = r.resp.body
                  /\ users[r.resp.body.id].password_hash = <<"bcrypt", r.arg.password>>
            /\ Done(p, "create_post") /\ Status(p) = 201
               => /\ r.resp.body.title = r.arg.title
                  /\ r.resp.body.content = r.arg.content
                  /\ r.resp.body.author_id = r.arg.author_id
                  /\ r.resp.body.created_at = <<"datetime", now>>
                  /\ r.resp.body.id \in DOMAIN posts
                  /\ PostResponse(posts[r.resp.body.id]) = r.resp.body

\* the commit of a create adds one row under a new id and changes no other
C9_CommitAddsOne ==
    \A p \in Procs :
        /\ proc[p].pc = "create_user_commit" /\ proc'[p].pc = "create_user_refresh"
           => /\ proc'[p].obj.id \notin DOMAIN users
              /\ DOMAIN users' = DOMAIN users \cup {proc'[p].obj.id}
              /\ \A i \in DOMAIN users : users'[i] = users[i]
              /\ posts' = posts
        /\ proc[p].pc = "create_post_commit" /\ proc'[p].pc = "create_post_refresh"
           => /\ proc'[p].obj.id \notin DOMAIN posts
              /\ DOMAIN posts' = DOMAIN posts \cup {proc'[p].obj.id}
              /\ \A i \in DOMAIN posts : posts'[i] = posts[i]
              /\ users' = users

\* C9: a successful create returns the submitted fields under an id no
\* stored record of the kind has, and its commit adds that one record to the
\* table and changes no other record.
C9_Creates == []C9_CreatedState /\ [][C9_CommitAddsOne]_vars

\* C9 happens: a second post has been created beside the first
C9_Witness ==
    \E p \in Procs :
        /\ Done(p, "create_post") /\ Status(p) = 201
        /\ Cardinality(DOMAIN posts) = 2
        /\ Cardinality(DOMAIN users) = 2

\* C10: the post-list keys are invalidated by the writes they depend on, after
\* the commit: delete_user deletes user:<id> and then posts_by_author:<id>;
\* create_post, update_post and delete_post delete posts_by_author:<author_id>
\* of the post (delete_post: of the row it read before deleting it); and
\* delete_user changes no post row.
C10_Invalidated ==
    \A p \in Procs :
        LET r == proc[p]
        IN  /\ Done(p, "delete_user") /\ Status(p) = 200
               => /\ r.log = <<EvQuery, EvCommit, EvDel(UserKey(r.arg.user_id)),
                               EvDel(PostsKey(r.arg.user_id))>>
                  /\ UserKey(r.arg.user_id) \notin DOMAIN cache
                  /\ PostsKey(r.arg.user_id) \notin DOMAIN cache
            /\ Done(p, "create_post") /\ Status(p) = 201
               => /\ r.log = <<EvQuery, EvCommit, EvQuery, EvDel(PostsKey(r.arg.author_id))>>
                  /\ PostsKey(r.resp.body.author_id) \notin DOMAIN cache
            /\ Done(p, "update_post") /\ Status(p) = 200
               => /\ r.log = <<EvQuery, EvCommit, EvQuery, EvDel(PostsKey(r.loaded.author_id))>>
                  /\ PostsKey(posts[r.arg.post_id].author_id) \notin DOMAIN cache
            /\ Done(p, "delete_post") /\ Status(p) = 200
               => /\ r.log = <<EvQuery, EvCommit, EvDel(PostsKey(r.loaded.author_id))>>
                  /\ r.arg.post_id \notin DOMAIN posts
                  /\ PostsKey(r.loaded.author_id) \notin DOMAIN cache

\* no step of delete_user changes the posts table
C10_DeleteUserKeepsPosts ==
    \A p \in Procs :
        proc'[p].op = "delete_user" /\ proc'[p] # proc[p] => posts' = posts

\* C10: a post write that succeeds has deleted posts_by_author:<author_id> of
\* the post's author after its commit, and delete_user leaves every post row
\* as it was.
C10_DerivedKeys == []C10_Invalidated /\ [][C10_DeleteUserKeepsPosts]_vars

\* C10 happens: a user is deleted, the user's posts are still stored, and the post list
\* that was cached for the user is about to be deleted
C10_Witness ==
    \E p \in Procs :
        /\ proc[p].pc = "delete_user_invalidate_posts"
        /\ proc[p].arg.user_id \notin DOMAIN users
        /\ \E i \in DOMAIN posts : posts[i].author_id = proc[p].arg.user_id
        /\ PostsKey(proc[p].arg.user_id) \in DOMAIN cache
        /\ Len(get_cached_posts_by_author(proc[p].arg.user_id)) > 0

\* the record a patch makes of a row: the patch's value where the patch has the
\* field, the row's own value elsewhere
Merged(row, patch, f) == IF f \in DOMAIN patch THEN patch[f] ELSE row[f]

\* C7: after update_user or update_post each field of the patch holds the
\* patch's value and every other field its previous value (the post's
\* updated_at is the time of the update); the response and the user key hold
\* this merged record, a following get_user (from the cache or from the store)
\* or get_post returns the stored record, and a patch that the record already
\* satisfies leaves it as it was (but for the post's updated_at).
C7_PatchSemantics ==
    \A p \in Procs :
        LET r == proc[p]
        IN  /\ Done(p, "update_user") /\ Status(p) = 200 =>
                LET id == r.arg.user_id
                    patch == r.arg.update
                IN  /\ id \in DOMAIN users
                    /\ \A f \in DOMAIN users[id] :
                            users[id][f] = Merged(r.loaded, patch, f)
                    /\ r.resp.body = UserResponse(users[id])
                    /\ FreshUserEntry(id)
                    /\ (\A f \in DOMAIN patch : r.loaded[f] = patch[f])
                            => users[id] = r.loaded
            /\ Done(p, "update_post") /\ Status(p) = 200 =>
                LET id == r.arg.post_id
                    patch == r.arg.update
                IN  /\ id \in DOMAIN posts
                    /\ \A f \in DOMAIN posts[id] \ {"updated_at"} :
                            posts[id][f] = Merged(r.loaded, patch, f)
                    /\ posts[id].updated_at = datetime(now)
                    /\ r.resp.body = PostResponse(posts[id])
                    /\ (\A f \in DOMAIN patch : r.loaded[f] = patch[f])
                            => [posts[id] EXCEPT !.updated_at = r.loaded.updated_at] = r.loaded
            /\ Done(p, "get_user") /\ Status(p) = 200 =>
                /\ r.arg.user_id \in DOMAIN users
                /\ r.resp.body = UserResponse(users[r.arg.user_id])
            /\ Done(p, "get_post") /\ Status(p) = 200 =>
                /\ r.arg.post_id \in DOMAIN posts
                /\ r.resp.body = PostResponse(posts[r.arg.post_id])

\* C7 happens: an update of the name alone has changed the name of an account
\* that an earlier update had deactivated, and the account is still inactive
C7_Witness ==
    \E p \in Procs :
        /\ Done(p, "update_user") /\ Status(p) = 200
        /\ DOMAIN proc[p].arg.update = {"name"}
        /\ proc[p].loaded.name # proc[p].arg.update.name
        /\ ~proc[p].loaded.is_active
        /\ proc[p].arg.user_id \in DOMAIN users
        /\ ~users[proc[p].arg.user_id].is_active
        /\ users[proc[p].arg.user_id].name = proc[p].arg.update.name

\* the statements that write a user key, and the three counts of a stats record
UserCachePcs == {"get_user_cache", "create_user_cache", "update_user_cache", "login_cache"}
CountsOf(stats) ==
    [total_users |-> stats.total_users, active_users |-> stats.active_users,
     total_posts |-> stats.total_posts]

\* a handler comes to its cache write holding what it has just read from the
\* committed store: the row, the page of posts, each count
C4_ReadForCache ==
    \A p \in Procs :
        LET r == proc[p]
            t == proc'[p]
        IN  /\ t.pc \in UserCachePcs /\ r.pc # t.pc =>
                /\ t.obj.id \in DOMAIN users
                /\ t.obj = users[t.obj.id]
                /\ users' = users
            /\ t.pc = "get_posts_cache" /\ r.pc # t.pc =>
                /\ t.list = QueryPosts(t.arg.author_id, t.arg.skip, t.arg.limit)
                /\ posts' = posts
            /\ r.pc = "stats_total_users" /\ t.pc # r.pc =>
                t.obj.total_users = StoreStats(users, posts).total_users
            /\ r.pc = "stats_active_users" /\ t.pc # r.pc =>
                /\ t.obj.active_users = StoreStats(users, posts).active_users
                /\ t.obj.total_users = r.obj.total_users
            /\ r.pc = "stats_total_posts" /\ t.pc # r.pc =>
                /\ t.obj.total_posts = StoreStats(users, posts).total_posts
                /\ t.obj.total_users = r.obj.total_users
                /\ t.obj.active_users = r.obj.active_users

\* what a cache write stores is what the handler holds, and nothing else puts
\* a value into the cache
C4_WrittenAsRead ==
    /\ \A p \in Procs :
        LET r == proc[p]
            t == proc'[p]
        IN  /\ r.pc \in UserCachePcs /\ t.pc # r.pc =>
                /\ UserKey(r.obj.id) \in DOMAIN cache'
                /\ UserFromCache(json_loads(cache'[UserKey(r.obj.id)].val)) = UserResponse(r.obj)
            /\ r.pc = "get_posts_cache" /\ t.pc # r.pc =>
                /\ PostsKey(r.arg.author_id) \in DOMAIN cache'
                /\ LET c == json_loads(cache'[PostsKey(r.arg.author_id)].val)
                   IN  /\ Len(c) = Len(r.list)
                       /\ \A i \in 1..Len(c) : PostFromCache(c[i]) = PostResponse(r.list[i])
            /\ r.pc = "stats_cache" /\ t.pc # r.pc =>
                /\ StatsKey \in DOMAIN cache'
                /\ CountsOf(json_loads(cache'[StatsKey].val)) = CountsOf(r.obj)
    /\ \A k \in DOMAIN cache' :
            (k \notin DOMAIN cache \/ cache'[k] # cache[k]) =>
                \E p \in Procs :
                    /\ proc[p].pc \in UserCachePcs \cup {"get_posts_cache", "stats_cache"}
                    /\ proc'[p].pc = "done"

\* a request that failed has written nothing to the cache, and a write handler
\* writes to the cache only after its commit
C4_NothingFromRejected ==
    \A p \in Procs :
        LET log == proc[p].log
            sets == {i \in 1..Len(log) : log[i][1] = "setex"}
        IN  /\ proc[p].pc = "done" /\ Status(p) >= 400 => sets = {}
            /\ proc[p].op \in {"create_user", "update_user", "login"} =>
                    \A i \in sets : \E j \in 1..(i - 1) : log[j] = EvCommit

\* C4 (amended): under every interleaving, a user entry is written from the
\* row, a post list from the page and each count of the stats record from the
\* count that the handler has read from the committed store before the write,
\* the three counts each at its own moment; a request that fails (update_user
\* whose commit fails) writes nothing to the cache.
C4_CachedFromStore ==
    /\ [][C4_ReadForCache /\ C4_WrittenAsRead]_vars
    /\ []C4_NothingFromRejected

\* the stats record a request has just written is one the store has held
C4_StatsWereHeld ==
    \A p \in Procs :
        Done(p, "get_analytics_stats") /\ EvSet(StatsKey) \in {proc[p].log[i] : i \in 1..Len(proc[p].log)}
            => CountsOf(proc[p].resp.body) \in hist

\* C4 as stated: every value written to a cache entry, the stats record
\* included, is a value the store held at or before the write.
C4_EveryValueCommitted ==
    /\ [][C4_ReadForCache /\ C4_WrittenAsRead]_vars
    /\ []C4_NothingFromRejected
    /\ []C4_StatsWereHeld

\* C4 happens: an update_user whose row another request has deleted fails at
\* its commit, and the cache holds no entry of the user
C4_Witness ==
    \E p \in Procs :
        /\ Done(p, "update_user") /\ Status(p) = 500
        /\ proc[p].resp.body = "StaleDataError"
        /\ UserKey(proc[p].arg.user_id) \notin DOMAIN cache
        /\ hist # {}

\* C11: when no request is being served, a present analytics:stats entry
\* holds the store's current total_users, active_users and total_posts (the
\* writes that change a count having deleted the entry).
C11_StatsFollowWrites ==
    Quiet /\ Cached(StatsKey)
        => CountsOf(json_loads(cache[StatsKey].val)) = StoreStats(users, posts)

\* the TTL of a key, by its kind
TTLOf(key) ==
    IF key = StatsKey THEN StatsTTL
    ELSE IF key \in {UserKey(i) : i \in UserIds} THEN UserTTL
    ELSE PostsTTL

\* the body get_posts returns from the store, and the ones the reads return
\* for the store as it is now
PostResponses(list) == [i \in 1..Len(list) |-> PostResponse(list[i])]
ReadsCurrent(p) ==
    LET r == proc[p]
    IN  /\ r.op = "get_user" =>
            /\ r.arg.user_id \in DOMAIN users
            /\ r.resp.body = UserResponse(users[r.arg.user_id])
        /\ r.op = "get_posts" =>
            r.resp.body = PostResponses(QueryPosts(r.arg.author_id, r.arg.skip, r.arg.limit))
        /\ r.op = "get_analytics_stats" =>
            CountsOf(r.resp.body) = StoreStats(users, posts)
ReadTTL(op) ==
    IF op = "get_user" THEN UserTTL ELSE IF op = "get_posts" THEN PostsTTL ELSE StatsTTL

\* an entry is set with its TTL from the time of the SETEX, by the cache
\* statement of a handler; a request that begins (a hit among them) leaves the
\* cache as it is
C12_SetWithTTL ==
    /\ \A k \in DOMAIN cache' :
            (k \notin DOMAIN cache \/ cache'[k] # cache[k]) =>
                /\ cache'[k].exp = now + TTLOf(k)
                /\ \E p \in Procs :
                    /\ proc[p].pc \in UserCachePcs \cup {"get_posts_cache", "stats_cache"}
                    /\ proc'[p].pc = "done"
    /\ \A p \in Procs : proc[p].pc = "idle" /\ proc'[p] # proc[p] => cache' = cache

\* an entry is present only before its expiry, which is no later than its TTL
\* from now
C12_ServedUntilExpiry ==
    \A k \in DOMAIN cache : now < cache[k].exp /\ cache[k].exp <= now + TTLOf(k)

\* once the store has settled, a read that ends a TTL or more later returns
\* what the store holds
C12_CurrentAfterTTL ==
    \A p \in Procs :
        /\ proc[p].pc = "done" /\ Status(p) = 200
        /\ proc[p].op \in {"get_user", "get_posts", "get_analytics_stats"}
        /\ settled # Unsettled /\ now >= settled + ReadTTL(proc[p].op)
        => ReadsCurrent(p)

\* C12: every entry is set with its TTL (15, 10, 5 minutes) from the time of
\* the SETEX and is served only before that expiry, and a hit leaves the entry
\* and its expiry as they are; so under every interleaving, once the writes
\* and every request that overlapped them have finished, a read that ends a
\* TTL or more later returns the store's current value.
C12_AtMostTTLStale ==
    /\ [][C12_SetWithTTL]_vars
    /\ [](C12_ServedUntilExpiry /\ C12_CurrentAfterTTL)

\* C12 happens: after the store has settled, and within the TTL, a get_user
\* is served the entry that a read racing with the update has left behind
C12_Witness ==
    \E p \in Procs :
        /\ Done(p, "get_user") /\ Status(p) = 200
        /\ settled # Unsettled /\ now > settled /\ now < settled + UserTTL
        /\ proc[p].log = <<EvGet(UserKey(proc[p].arg.user_id))>>
        /\ proc[p].arg.user_id \in DOMAIN users
        /\ proc[p].resp.body # UserResponse(users[proc[p].arg.user_id])

\* the refusals: the endpoint, the status and the message
Refusals ==
    {<<op, 404, "User not found">> : op \in {"get_user", "update_user", "delete_user"}}
    \cup {<<op, 404, "Post not found">> : op \in {"get_post", "update_post", "delete_post"}}
    \cup {<<"create_post", 404, "Author not found">>}
    \cup {<<op, 400, "Email already registered">> : op \in {"create_user", "update_user"}}
    \cup {<<"login", 401, detail>> : detail \in {"Incorrect email or password",
                                                 "Account is inactive"}}
Refused(r) == r.pc = "done" /\ r.resp.status \in {400, 401, 404}

\* the step that refuses a request, and every step that only reads, leaves
\* the tables, the sequences, the cache and the other workers as they are
C13_RefusalChangesNothing ==
    \A p \in Procs :
        LET r == proc'[p]
        IN  /\ r # proc[p]
            /\ \/ Refused(r)
               \/ Len(r.log) > 0 /\ r.log[Len(r.log)][1] \in {"get", "query"}
            => /\ UNCHANGED <<users, posts, seq, cache>>
               /\ \A q \in Procs \ {p} : proc'[q] = proc[q]

\* a refused request has done nothing but read, and is one of the refusals
C13_RefusedOnlyRead ==
    \A p \in Procs :
        Refused(proc[p]) =>
            /\ <<proc[p].op, Status(p), proc[p].resp.body>> \in Refusals
            /\ \A i \in 1..Len(proc[p].log) : proc[p].log[i][1] \in {"get", "query"}

\* C13: a request that ends in 404 (unknown id or author), 400 (duplicate
\* email) or 401 (bad credential, inactive account) has modified no row, has
\* set or deleted no cache entry, and has left nothing behind that another
\* request could see.
C13_ErrorsLeaveStores == [][C13_RefusalChangesNothing]_vars /\ []C13_RefusedOnlyRead

\* C13 happens: a login is refused for an account that an update has
\* deactivated; the row and its cache entry are as the update left them
C13_Witness ==
    \E p \in Procs :
        /\ Done(p, "login") /\ Status(p) = 401
        /\ proc[p].resp.body = "Account is inactive"
        /\ \E id \in DOMAIN users :
            /\ users[id].email = proc[p].arg.email
            /\ users[id].last_login = None
            /\ FreshUserEntry(id)

\* C14: when only write handlers have overlapped (no read handler runs) and
\* all of them have finished, every present user:<id> entry equals the row
\* the store holds for id.
C14_WritersLeaveCoherent ==
    Quiet => \A id \in UserIds :
                UserKey(id) \in DOMAIN cache
                    => id \in DOMAIN users /\ CachedUser(id) = UserResponse(users[id])

\* C15: get_posts(author_id, skip, limit) returns the page the store yields for
\* the author's posts with that offset and limit, whether it is served from
\* posts_by_author:<author_id> or from the store.
C15_PageOfRequest ==
    \A p \in Procs :
        Done(p, "get_posts") /\ Status(p) = 200 /\ TruthyInt(proc[p].arg.author_id)
            => proc[p].resp.body =
                PostResponses(QueryPosts(proc[p].arg.author_id, proc[p].arg.skip,
                                         proc[p].arg.limit))

\* C16: requests served one at a time. Between requests, a present user:<id>
\* entry belongs to a stored row and holds its current id, name, email,
\* is_active, created_at and last_login; so a get_user that succeeds returns
\* the stored record, from the cache as from the store.
C16_UserCacheCoherent ==
    /\ Quiet => \A id \in UserIds :
                    UserKey(id) \in DOMAIN cache
                        => id \in DOMAIN users /\ CachedUser(id) = UserResponse(users[id])
    /\ \A p \in Procs :
            Done(p, "get_user") /\ Status(p) = 200
                => /\ proc[p].arg.user_id \in DOMAIN users
                   /\ proc[p].resp.body = UserResponse(users[proc[p].arg.user_id])

\* C16 happens: a get_user is served from the cache the record of an account
\* that has logged in and has then been deactivated
C16_Witness ==
    \E p \in Procs :
        /\ Done(p, "get_user") /\ Status(p) = 200
        /\ proc[p].log = <<EvGet(UserKey(proc[p].arg.user_id))>>
        /\ proc[p].resp.body.last_login # None
        /\ ~proc[p].resp.body.is_active

\* C17: of overlapping create_user requests with one email, one inserts the
\* record and the other is refused with 400; no two stored users ever share
\* an email, and a request that did not insert leaves no cache entry.
C17_LoserGetsConflict ==
    /\ \A i, j \in DOMAIN users : users[i].email = users[j].email => i = j
    /\ \A p \in Procs :
            Done(p, "create_user") =>
                /\ Status(p) \in {201, 400}
                /\ Status(p) = 400 =>
                       \A i \in 1..Len(proc[p].log) : proc[p].log[i][1] # "setex"

\* the commit of a create_post finds its author stored
C18_CommitFindsAuthor ==
    \A p \in Procs :
        proc[p].pc = "create_post_commit" /\ proc'[p].pc # proc[p].pc
            => proc[p].arg.author_id \in DOMAIN users

\* C18: create_post with an author_id that is not stored when the handler
\* checks answers 404 'Author not found' and inserts no post; and, delete_user
\* running beside it, every post that create_post commits has an author that
\* is a stored user at the moment of the commit.
C18_AuthorStoredAtCommit ==
    /\ [](\A p \in Procs :
            Done(p, "create_post") /\ Status(p) = 404
                => proc[p].resp.body = "Author not found" /\ proc[p].log = <<EvQuery>>)
    /\ [][C18_CommitFindsAuthor]_vars

\* C19: after any sequence of accepted requests, update_user bodies with an
\* explicit null among them, every stored user and every user:<id> entry has
\* a name and an email that are not null, and get_user for a stored id
\* returns the record.
C19_Readable ==
    /\ \A id \in DOMAIN users : ValidUser(users[id])
    /\ \A id \in UserIds :
            UserKey(id) \in DOMAIN cache => ValidUser(json_loads(cache[UserKey(id)].val))
    /\ \A p \in Procs :
            Done(p, "get_user") /\ proc[p].arg.user_id \in DOMAIN users => Status(p) = 200

====
